---- MODULE Spec2Model ----
(***************************************************************************)
(* Model of pubmed-fetcher: PubMedFetcher (src/pubmed_fetcher.py) driven   *)
(* by main (src/cli.py).                                                   *)
(*                                                                         *)
(* Python strings are modelled as sequences of one-character strings, so   *)
(* that lower(), strip(), "in" and join() are computed, not assumed.       *)
(* An optional value (an XML element that may be absent, Optional[Dict])   *)
(* is a sequence of length 0 (absent / None) or 1 (present).               *)
(***************************************************************************)
EXTENDS Integers, Sequences, FiniteSets

VARIABLES
    run,        \* the run of main(): fetcher fields, locals of fetch_papers, outputs
    twin,       \* the same run with the debug flag flipped, fed the same inputs
    xml,        \* parsing pipeline: the document handed to the extractors
    ppc,        \* parsing pipeline: position
    authors,    \* parsing pipeline: result of _extract_authors
    filtered,   \* parsing pipeline: result of _filter_authors
    details,    \* parsing pipeline: Optional[Dict] built by _fetch_paper_details
    pub_date    \* parsing pipeline: result of _extract_pub_date

vars == <<run, twin, xml, ppc, authors, filtered, details, pub_date>>

(***************************************************************************)
(* Bounds of the model.                                                    *)
(***************************************************************************)
MaxIds == 11        \* longest idlist the search endpoint answers with
MaxAuthors == 3     \* most <Author> elements in an enumerated document

(***************************************************************************)
(* Strings.                                                                *)
(***************************************************************************)
None == <<>>
Some(v) == <<v>>

EmptyStr == <<>>

Upper == <<"A", "B", "C", "D", "E", "F", "G", "H", "I", "J", "K", "L", "M",
           "N", "O", "P", "Q", "R", "S", "T", "U", "V", "W", "X", "Y", "Z">>
Lower == <<"a", "b", "c", "d", "e", "f", "g", "h", "i", "j", "k", "l", "m",
           "n", "o", "p", "q", "r", "s", "t", "u", "v", "w", "x", "y", "z">>

Whitespace == {" ", "\t", "\n"}

lower_char(c) ==
    IF \E i \in 1..Len(Upper) : Upper[i] = c
    THEN Lower[CHOOSE i \in 1..Len(Upper) : Upper[i] = c]
    ELSE c

\* str.lower()
lower(s) == [i \in 1..Len(s) |-> lower_char(s[i])]

\* str.strip()
strip(s) ==
    LET keep == {i \in 1..Len(s) : s[i] \notin Whitespace}
        first == CHOOSE i \in keep : \A j \in keep : i <= j
        last == CHOOSE i \in keep : \A j \in keep : j <= i
    IN  IF keep = {} THEN EmptyStr ELSE SubSeq(s, first, last)

\* needle in hay
contains(hay, needle) ==
    \E i \in 0..(Len(hay) - Len(needle)) :
        SubSeq(hay, i + 1, i + Len(needle)) = needle

RECURSIVE join(_, _)
\* sep.join(parts)
join(sep, parts) ==
    IF parts = <<>> THEN EmptyStr
    ELSE IF Len(parts) = 1 THEN parts[1]
    ELSE parts[1] \o sep \o join(sep, Tail(parts))

\* Element.findtext(path, default): the text of the child, "" for a child
\* without text, the default for no child
findtext(child, default) == IF child = None THEN default ELSE child[1]

(***************************************************************************)
(* Documents: what etree.fromstring and the find/xpath calls see.          *)
(***************************************************************************)
XmlDoc(wf, title, pubdate, authorElems, email) ==
    [wellformed |-> wf, ArticleTitle |-> title, PubDate |-> pubdate,
     Author |-> authorElems, Email |-> email]

Malformed == XmlDoc(FALSE, None, None, <<>>, None)

\* _extract_from_xml(xml, tag), with the element found by root.find passed in
_extract_from_xml(doc, element) ==
    IF ~doc.wellformed THEN EmptyStr
    ELSE IF element # None THEN strip(element[1])
    ELSE EmptyStr

\* the truth test of line 128
pub_date_complete_mut(year, month, day) == year # EmptyStr /\ month # EmptyStr
pub_date_complete(year, month, day) ==
    year # EmptyStr /\ month # EmptyStr /\ day # EmptyStr

_extract_pub_date(doc) ==
    IF ~doc.wellformed THEN EmptyStr
    ELSE IF doc.PubDate # None
    THEN LET pd == doc.PubDate[1]
             year == strip(findtext(pd.Year, EmptyStr))
             month == strip(findtext(pd.Month, EmptyStr))
             day == strip(findtext(pd.Day, EmptyStr))
         IN  IF pub_date_complete(year, month, day)
             THEN year \o <<"-">> \o month \o <<"-">> \o day
             ELSE EmptyStr
    ELSE EmptyStr

RECURSIVE extract_authors_loop(_, _)
\* the for loop of lines 139-147 over root.xpath("//Author")
extract_authors_loop(elems, acc) ==
    IF elems = <<>> THEN acc
    ELSE LET author == Head(elems)
             last_name == strip(findtext(author.LastName, EmptyStr))
             fore_name == strip(findtext(author.ForeName, EmptyStr))
             affiliation == strip(findtext(author.Affiliation, EmptyStr))
         IN  extract_authors_loop(Tail(elems),
                 IF last_name # EmptyStr
                 THEN Append(acc, [name |-> fore_name \o <<" ">> \o last_name,
                                   affiliation |-> affiliation])
                 ELSE acc)

_extract_authors(doc) ==
    IF ~doc.wellformed THEN <<>>
    ELSE extract_authors_loop(doc.Author, <<>>)

keywords == << <<"p", "h", "a", "r", "m", "a">>,
               <<"b", "i", "o", "t", "e", "c", "h">>,
               <<"p", "h", "a", "r", "m", "a", "c", "e", "u", "t", "i", "c", "a", "l">>,
               <<"b", "i", "o", "t", "e", "c", "h", "n", "o", "l", "o", "g", "y">> >>

\* line 160-161: the affiliation as compared with the keywords
match_text_mut(author) == author.affiliation
match_text(author) == lower(author.affiliation)

any_keyword(author) ==
    \E k \in 1..Len(keywords) : contains(match_text(author), keywords[k])

RECURSIVE filter_authors_loop(_, _, _)
\* the for loop of lines 159-163
filter_authors_loop(rest, company_authors, company_affiliations) ==
    IF rest = <<>> THEN <<company_authors, company_affiliations>>
    ELSE LET author == Head(rest)
         IN  IF any_keyword(author)
             THEN filter_authors_loop(Tail(rest),
                      Append(company_authors, author.name),
                      Append(company_affiliations, author.affiliation))
             ELSE filter_authors_loop(Tail(rest), company_authors,
                                      company_affiliations)

\* lines 166-168: what is returned when the loop kept nobody
fallback_mut(as) == <<<<>>, <<>>>>
fallback(as) ==
    <<[i \in 1..Len(as) |-> as[i].name], [i \in 1..Len(as) |-> as[i].affiliation]>>

_filter_authors(as) ==
    LET kept == filter_authors_loop(as, <<>>, <<>>)
    IN  IF kept[1] = <<>> THEN fallback(as) ELSE kept

CommaSpace == <<",", " ">>

\* lines 86-105 of _fetch_paper_details: the Optional[Dict] built from the body
\* of a 2xx response
parse_details(paper_id, doc) ==
    LET title == _extract_from_xml(doc, doc.ArticleTitle)
        date == _extract_pub_date(doc)
        as == _extract_authors(doc)
        email == _extract_from_xml(doc, doc.Email)
        company == _filter_authors(as)
    IN  IF company[1] # <<>>
        THEN Some([PubmedID |-> paper_id,
                   Title |-> title,
                   PublicationDate |-> date,
                   NonAcademicAuthors |-> join(CommaSpace, company[1]),
                   CompanyAffiliations |-> join(CommaSpace, company[2]),
                   CorrespondingAuthorEmail |-> email])
        ELSE None

(***************************************************************************)
(* The upstream service.  A record identifier names one fixed record; the  *)
(* records differ in what the extractors find in them.                     *)
(***************************************************************************)
Elem(last, fore, affiliation) ==
    [LastName |-> last, ForeName |-> fore, Affiliation |-> affiliation]

Date(year, month, day) == [Year |-> year, Month |-> month, Day |-> day]

RoeElem == Elem(Some(<<"R", "o", "e">>), Some(<<"A", "l">>),
                Some(<<"X", "Y", " ", "P", "h", "a", "r", "m", "a">>))
KimElem == Elem(Some(<<"K", "i", "m">>), None,
                Some(<<"S", "t", "a", "t", "e", " ", "U">>))
BoElem == Elem(None, Some(<<"B", "o">>), Some(<<"B", "I", "O", "T", "E", "C", "H">>))
WuElem == Elem(Some(<<"W", "u">>), Some(<<"C", "y">>), None)
NgElem == Elem(Some(<<" ", "N", "g">>), Some(<<"D", "i">>),
               Some(<<" ", "B", "i", "o", "t", "e", "c", "h", "n", "o", "l", "o", "g", "y", " ">>))
BlankElem == Elem(Some(<<" ">>), Some(<<"E", "d">>), Some(<<"p", "h", "a", "r", "m", "a">>))
FoxElem == Elem(Some(<<"F", "o", "x">>), Some(<<"G", "i">>), Some(<<"P", "h", "a", "r", "m">>))

FullDate == Some(Date(Some(<<"2", "0", "2", "4">>), Some(<<"0", "5">>), Some(<<"1", "7">>)))
TitleElem == Some(<<" ", "T", "r", "i", "a", "l", " ">>)
EmailElem == Some(<<"a", "@", "b", ".", "c">>)

\* the record stored under an identifier
Database(paper_id) ==
    CASE paper_id % 4 = 1 -> XmlDoc(TRUE, TitleElem, FullDate, <<RoeElem>>, EmailElem)
      [] paper_id % 4 = 2 ->
            XmlDoc(TRUE, TitleElem,
                   Some(Date(Some(<<"2", "0", "2", "4">>), Some(<<"0", "5">>), None)),
                   <<KimElem>>, None)
      [] paper_id % 4 = 3 -> XmlDoc(TRUE, None, None, <<BoElem>>, EmailElem)
      [] OTHER -> XmlDoc(TRUE, None, FullDate, <<>>, None)

\* idlist of the search answer: n identifiers
IdList(n) == [i \in 1..n |-> i]

(***************************************************************************)
(* Outcomes of one requests.get + raise_for_status (+ response.json()).    *)
(***************************************************************************)
RequestException == {"timeout", "connection", "status"}

\* line 39: except (requests.exceptions.RequestException, ValueError)
search_caught == RequestException \cup {"badjson"}

\* line 77: except requests.exceptions.RequestException
detail_caught == RequestException

SearchOutcomes ==
    {[kind |-> "ok", n |-> n] : n \in 0..MaxIds}
        \cup {[kind |-> k, n |-> 0] : k \in RequestException \cup {"badjson"}}

DetailOutcomes == {"ok", "badxml"} \cup RequestException

\* line 29
max_retries_mut == 3 + 1
max_retries == 3

\* line 70
max_retries_details_mut == 3 + 1
max_retries_details == 3

\* line 53: paper_ids[:10]
SliceCap == 10

Min(a, b) == IF a <= b THEN a ELSE b

(***************************************************************************)
(* The run of main().  pc is the position of the single thread:            *)
(*   search / search_sleep   in the retry loop of fetch_papers             *)
(*   found                   the search loop ended by break                *)
(*   detail / detail_sleep   in the retry loop of _fetch_paper_details     *)
(*   collect                 _fetch_paper_details returned paper_details   *)
(*   save                    fetch_papers returned papers to main          *)
(*   done / raised           main returned / an exception left main        *)
(* attempt, requests and outcome are locals of the running retry loop      *)
(* (requests: requests.get calls made by it, outcome: what the last one    *)
(* met); they are cleared when their frame is left.                        *)
(***************************************************************************)
NoFile == [created |-> FALSE, header |-> FALSE, rows |-> <<>>]

Line(text, paper) == [text |-> text, paper |-> paper]

NoPapersFound == Line("No papers found.", None)
ErrorSaving == Line("Error saving to CSV", None)

\* print under "if self.debug"
debug_print(s, msg) == IF s.debug THEN s.diag \cup {msg} ELSE s.diag

\* PubMedFetcher(query, debug) as main constructs it, before fetch_papers
InitRun(debug) ==
    [debug |-> debug,
     pc |-> "search", attempt |-> 0, requests |-> 0, outcome |-> "none",
     paper_ids |-> <<>>, idx |-> 0, paper_details |-> None, papers |-> <<>>,
     fetched |-> <<>>, results |-> <<>>, searchFailed |-> FALSE,
     filename |-> None, console |-> <<>>, diag |-> {}, file |-> NoFile,
     returned |-> "pending", writeFailed |-> FALSE]

\* paper_ids[:10]
todo_mut(s) == s.paper_ids
todo(s) == SubSeq(s.paper_ids, 1, Min(SliceCap, Len(s.paper_ids)))

\* lines 30-46: one iteration of the search retry loop
search_attempt(s, o) ==
    LET s0 == [s EXCEPT !.diag = IF s.attempt = 0
                                 THEN debug_print(s, <<"Fetching papers", 0>>)
                                 ELSE @,
                        !.requests = @ + 1,
                        !.outcome = o.kind]
    IN  CASE o.kind = "ok" -> [s0 EXCEPT !.paper_ids = IdList(o.n), !.pc = "found"]
          [] o.kind \in search_caught ->
                IF s.attempt = max_retries - 1
                THEN [s0 EXCEPT !.diag = debug_print(s0, <<"Max retries reached (search)", 0>>),
                                !.searchFailed = TRUE,
                                !.papers = <<>>,
                                !.pc = "save"]
                ELSE [s0 EXCEPT !.pc = "search_sleep"]
          [] OTHER -> [s0 EXCEPT !.pc = "raised"]

\* lines 46 and 84: time.sleep(5), then the next iteration of the loop
sleep(s) ==
    [s EXCEPT !.pc = IF @ = "search_sleep" THEN "search" ELSE "detail",
              !.attempt = @ + 1]

\* lines 48-56: after the search loop, up to the first detail call
start_batch(s) ==
    LET s1 == [s EXCEPT !.diag = debug_print(s, <<"Found papers", Len(s.paper_ids)>>),
                        !.papers = <<>>,
                        !.attempt = 0, !.requests = 0, !.outcome = "none"]
    IN  IF s.paper_ids # <<>>
        THEN [s1 EXCEPT !.pc = "detail", !.idx = 1]
        ELSE [s1 EXCEPT !.pc = "save"]

\* diagnostics of the extractors on an unparseable body
extract_errors(s, doc) ==
    IF s.debug /\ ~doc.wellformed
    THEN s.diag \cup {<<"Error extracting ArticleTitle", 0>>,
                      <<"Error extracting publication date", 0>>,
                      <<"Error parsing XML for authors", 0>>,
                      <<"Error extracting Email", 0>>}
    ELSE s.diag

\* lines 71-105: one iteration of the detail retry loop for todo[idx]
detail_attempt(s, o) ==
    LET paper_id == todo(s)[s.idx]
        s0 == [s EXCEPT !.diag = IF s.attempt = 0
                                 THEN debug_print(s, <<"Processing paper", s.idx>>)
                                 ELSE @,
                        !.requests = @ + 1,
                        !.outcome = o]
    IN  IF o \in detail_caught
        THEN LET s1 == [s0 EXCEPT !.diag = debug_print(s0, <<"Attempt failed", s.attempt + 1>>)]
             IN  IF s.attempt = max_retries_details - 1
                 THEN [s1 EXCEPT !.diag = debug_print(s1, <<"Max retries reached (details)", 0>>),
                                 !.paper_details = None,
                                 !.pc = "collect"]
                 ELSE [s1 EXCEPT !.pc = "detail_sleep"]
        ELSE LET doc == IF o = "ok" THEN Database(paper_id) ELSE Malformed
             IN  [s0 EXCEPT !.diag = extract_errors(s0, doc),
                            !.paper_details = parse_details(paper_id, doc),
                            !.pc = "collect"]

\* line 53: is there a next identifier to process after position idx
more_ids_mut(s) == s.paper_details # None /\ s.idx < Len(todo(s))
more_ids(s) == s.idx < Len(todo(s))

\* lines 57-58 and the loop of line 53: paper_details is back in fetch_papers
collect(s) ==
    LET s1 == [s EXCEPT !.papers = IF s.paper_details # None
                                   THEN Append(@, s.paper_details[1])
                                   ELSE @,
                        !.fetched = Append(@, todo(s)[s.idx]),
                        !.results = Append(@, s.paper_details # None),
                        !.paper_details = None,
                        !.attempt = 0, !.requests = 0, !.outcome = "none"]
    IN  IF more_ids(s)
        THEN [s1 EXCEPT !.pc = "detail", !.idx = @ + 1]
        ELSE [s1 EXCEPT !.pc = "save"]

\* line 178: not papers
no_papers_mut(s) == FALSE
no_papers(s) == s.papers = <<>>

\* lines 196-197
print_rows_mut(s) ==
    IF s.debug
    THEN [s EXCEPT !.console = @ \o [i \in 1..Len(s.papers) |-> Line("row", Some(s.papers[i]))]]
    ELSE s
print_rows(s) ==
    [s EXCEPT !.console = @ \o [i \in 1..Len(s.papers) |-> Line("row", Some(s.papers[i]))]]

\* what open/writeheader/writerows can do: complete, fail to open, or fail
\* after `at` lines (header first) reached the file
WriteOutcomes(s) ==
    {[kind |-> "ok", at |-> 0], [kind |-> "open_fail", at |-> 0]}
        \cup {[kind |-> "write_fail", at |-> k] : k \in 0..Len(s.papers)}

\* lines 176-197, called by main with filename=args.file
save_to_csv(s, filename, w) ==
    LET s0 == [s EXCEPT !.pc = "done", !.returned = "None", !.filename = filename]
    IN  IF no_papers(s)
        THEN [s0 EXCEPT !.console = Append(@, NoPapersFound)]
        ELSE IF filename # None
        THEN CASE w.kind = "ok" ->
                    [s0 EXCEPT !.file = [created |-> TRUE, header |-> TRUE, rows |-> s.papers],
                               !.diag = debug_print(s, <<"Results saved", 0>>)]
               [] w.kind = "open_fail" ->
                    [s0 EXCEPT !.console = Append(@, ErrorSaving),
                               !.writeFailed = TRUE]
               [] OTHER ->
                    [s0 EXCEPT !.file = [created |-> TRUE, header |-> w.at >= 1,
                                         rows |-> SubSeq(s.papers, 1, w.at - 1)],
                               !.console = Append(@, ErrorSaving),
                               !.writeFailed = TRUE]
        ELSE print_rows(s0)

(***************************************************************************)
(* main(): fetch_papers, then save_to_csv.  run is the run with --debug,   *)
(* twin the run without; every step feeds both the same input.             *)
(***************************************************************************)
OutCsv == Some(<<"o", "u", "t", ".", "c", "s", "v">>)

ParseIdle ==
    /\ xml = Malformed
    /\ ppc = "idle"
    /\ authors = <<>>
    /\ filtered = <<<<>>, <<>>>>
    /\ details = None
    /\ pub_date = EmptyStr

Init ==
    /\ run = InitRun(TRUE)
    /\ twin = InitRun(FALSE)
    /\ ParseIdle

SearchRequest ==
    /\ run.pc = "search"
    /\ \E o \in SearchOutcomes :
          /\ run' = search_attempt(run, o)
          /\ twin' = search_attempt(twin, o)
    /\ UNCHANGED <<xml, ppc, authors, filtered, details, pub_date>>

Sleep ==
    /\ run.pc \in {"search_sleep", "detail_sleep"}
    /\ run' = sleep(run)
    /\ twin' = sleep(twin)
    /\ UNCHANGED <<xml, ppc, authors, filtered, details, pub_date>>

StartBatch ==
    /\ run.pc = "found"
    /\ run' = start_batch(run)
    /\ twin' = start_batch(twin)
    /\ UNCHANGED <<xml, ppc, authors, filtered, details, pub_date>>

DetailRequest ==
    /\ run.pc = "detail"
    /\ \E o \in DetailOutcomes :
          /\ run' = detail_attempt(run, o)
          /\ twin' = detail_attempt(twin, o)
    /\ UNCHANGED <<xml, ppc, authors, filtered, details, pub_date>>

Collect ==
    /\ run.pc = "collect"
    /\ run' = collect(run)
    /\ twin' = collect(twin)
    /\ UNCHANGED <<xml, ppc, authors, filtered, details, pub_date>>

SaveToCsv ==
    /\ run.pc = "save"
    /\ \E f \in {None, OutCsv}, w \in WriteOutcomes(run) :
          /\ run' = save_to_csv(run, f, w)
          /\ twin' = save_to_csv(twin, f, w)
    /\ UNCHANGED <<xml, ppc, authors, filtered, details, pub_date>>

Next ==
    \/ SearchRequest
    \/ Sleep
    \/ StartBatch
    \/ DetailRequest
    \/ Collect
    \/ SaveToCsv

Spec == Init /\ [][Next]_vars

(***************************************************************************)
(* The extractors and the classification applied to enumerated documents.  *)
(***************************************************************************)
AuthorElems == {RoeElem, KimElem, BoElem, WuElem, NgElem, BlankElem, FoxElem}

YearTexts == {None, Some(EmptyStr), Some(<<" ">>), Some(<<"2", "0", "2", "4">>),
              Some(<<" ", "2", "0", "2", "4", "\n">>)}
MonthTexts == {None, Some(EmptyStr), Some(<<"\t">>), Some(<<"0", "5">>)}
DayTexts == {None, Some(EmptyStr), Some(<<" ", " ">>), Some(<<"1", "7">>)}

AuthorDocs ==
    {XmlDoc(TRUE, TitleElem, FullDate, as, EmailElem) :
        as \in UNION {[1..n -> AuthorElems] : n \in 0..MaxAuthors}}

DateDocs ==
    {XmlDoc(TRUE, TitleElem, pd, <<RoeElem>>, None) :
        pd \in {None} \cup {Some(Date(y, m, d)) :
                                y \in YearTexts, m \in MonthTexts, d \in DayTexts}}

ParseDocs == AuthorDocs \cup DateDocs \cup {Malformed}

InitParse ==
    /\ run = InitRun(TRUE)
    /\ twin = InitRun(FALSE)
    /\ xml \in ParseDocs
    /\ ppc = "start"
    /\ authors = <<>>
    /\ filtered = <<<<>>, <<>>>>
    /\ details = None
    /\ pub_date = EmptyStr

ExtractPubDate ==
    /\ ppc = "start"
    /\ pub_date' = _extract_pub_date(xml)
    /\ ppc' = "date"
    /\ UNCHANGED <<run, twin, xml, authors, filtered, details>>

ExtractAuthors ==
    /\ ppc = "date"
    /\ authors' = _extract_authors(xml)
    /\ ppc' = "authors"
    /\ UNCHANGED <<run, twin, xml, filtered, details, pub_date>>

FilterAuthors ==
    /\ ppc = "authors"
    /\ filtered' = _filter_authors(authors)
    /\ ppc' = "filtered"
    /\ UNCHANGED <<run, twin, xml, authors, details, pub_date>>

BuildDetails ==
    /\ ppc = "filtered"
    /\ details' = parse_details(1, xml)
    /\ ppc' = "done"
    /\ UNCHANGED <<run, twin, xml, authors, filtered, pub_date>>

NextParse == ExtractPubDate \/ ExtractAuthors \/ FilterAuthors \/ BuildDetails

SpecParse == InitParse /\ [][NextParse]_vars

(***************************************************************************)
(* Vocabulary of the properties.                                           *)
(***************************************************************************)
SearchFailures == {"timeout", "connection", "status", "badjson"}
NetworkFailures == {"timeout", "connection", "status"}

InDetail(s) == s.pc \in {"detail", "detail_sleep", "collect"}
\* a detail attempt has just ended: its outcome decides what comes next
Attempted(s) == s.pc \in {"detail_sleep", "collect"}
Terminal(s) == s.pc \in {"done", "raised"}

\* an author whose lowercased affiliation contains a keyword
HasKeyword(a) ==
    \E k \in {keywords[j] : j \in 1..Len(keywords)} : contains(lower(a.affiliation), k)

Names(as) == [i \in 1..Len(as) |-> as[i].name]
Affiliations(as) == [i \in 1..Len(as) |-> as[i].affiliation]

RowIds(papers) == [i \in 1..Len(papers) |-> papers[i].PubmedID]

RECURSIVE Yielded(_, _)
\* the identifiers, in order, whose detail fetch returned a row
Yielded(ids, flags) ==
    IF ids = <<>> THEN <<>>
    ELSE IF Head(flags) THEN <<Head(ids)>> \o Yielded(Tail(ids), Tail(flags))
    ELSE Yielded(Tail(ids), Tail(flags))

(***************************************************************************)
(* C1: the search stage makes at most 3 attempts, the first success ends   *)
(* the retry loop, and three failures (timeout, connection error, non-2xx, *)
(* malformed JSON) make fetch_papers return [] without raising and without *)
(* any detail fetch.                                                       *)
(***************************************************************************)
SearchRetry(s) ==
    /\ s.pc = "search" => s.attempt < 3 /\ s.requests = s.attempt
    /\ s.pc = "search_sleep" => s.outcome \in SearchFailures /\ s.requests < 3
    /\ (s.idx = 0 /\ s.outcome = "ok") => s.pc = "found" /\ s.requests <= 3
    /\ (s.idx = 0 /\ s.requests = 3 /\ s.outcome \in SearchFailures) => s.searchFailed
    /\ s.searchFailed =>
          /\ s.requests = 3
          /\ s.pc \in {"save", "done"}
          /\ s.papers = <<>>
          /\ s.fetched = <<>>
          /\ s.idx = 0
    /\ s.pc # "raised"

\* C1: at most 3 search attempts; success ends the loop; 3 failures give []
C1_SearchRetry == SearchRetry(run) /\ SearchRetry(twin)

C1_Witness ==
    /\ run.searchFailed
    /\ run.outcome = "badjson"
    /\ run.pc = "done"
    /\ run.console = <<NoPapersFound>>

(***************************************************************************)
(* C2: the detail fetch retries on a failed request up to 3 attempts and   *)
(* then yields None.  As stated, a malformed XML body is retried too.      *)
(***************************************************************************)
ParseFailureRetried(s) ==
    (Attempted(s) /\ s.outcome \in NetworkFailures \cup {"badxml"}) =>
        IF s.requests < 3
        THEN s.pc = "detail_sleep"
        ELSE s.pc = "collect" /\ s.paper_details = None

\* C2 as stated: network failures and parse failures are both retried
C2_ParseFailureRetried == ParseFailureRetried(run) /\ ParseFailureRetried(twin)

DetailRetry(s) ==
    /\ InDetail(s) => s.requests <= 3
    /\ s.pc = "detail" => s.attempt < 3 /\ s.requests = s.attempt
    /\ (s.pc = "detail" /\ s.attempt > 0) => s.outcome \in NetworkFailures
    /\ (Attempted(s) /\ s.outcome \in NetworkFailures) =>
          IF s.requests < 3
          THEN s.pc = "detail_sleep"
          ELSE s.pc = "collect" /\ s.paper_details = None
    /\ (Attempted(s) /\ s.outcome = "badxml") =>
          s.pc = "collect" /\ s.paper_details = None
    /\ s.pc # "raised"

\* C2 amended: only a failed request is retried (3 attempts, then None); a
\* malformed XML body ends the loop at once and yields None, without raising
C2_NetworkFailureRetried == DetailRetry(run) /\ DetailRetry(twin)

C2_Witness ==
    /\ run.pc = "collect"
    /\ run.outcome = "badxml"
    /\ run.requests = 2
    /\ run.paper_details = None

(***************************************************************************)
(* C3: a row is produced iff the extracted author list is non-empty; with  *)
(* no matching author _filter_authors returns all authors; for no authors  *)
(* it returns two empty sequences.                                         *)
(***************************************************************************)
\* C3: fallback rule and row production
C3_RowIffAuthors ==
    /\ ppc \in {"filtered", "done"} =>
          /\ authors = <<>> => filtered = <<<<>>, <<>>>>
          /\ authors # <<>> => filtered[1] # <<>>
          /\ (\A i \in 1..Len(authors) : ~HasKeyword(authors[i])) =>
                /\ filtered[1] = Names(authors)
                /\ filtered[2] = Affiliations(authors)
    /\ ppc = "done" => (details # None <=> authors # <<>>)

C3_Witness ==
    /\ ppc = "done"
    /\ Len(authors) = 2
    /\ \A i \in 1..Len(authors) : ~HasKeyword(authors[i])
    /\ details # None
    /\ filtered[1] = Names(authors)

(***************************************************************************)
(* C4: when at least one author matches, the names returned are exactly    *)
(* the matching authors in order, with their affiliations index-aligned.   *)
(***************************************************************************)
\* C4: classification result when some author matches
C4_MatchingAuthors ==
    (ppc \in {"filtered", "done"} /\ \E i \in 1..Len(authors) : HasKeyword(authors[i])) =>
        /\ filtered[1] = Names(SelectSeq(authors, HasKeyword))
        /\ filtered[2] = Affiliations(SelectSeq(authors, HasKeyword))
        /\ Len(filtered[1]) = Len(filtered[2])

C4_Witness ==
    /\ ppc = "filtered"
    /\ Len(authors) = 3
    /\ HasKeyword(authors[1])
    /\ ~HasKeyword(authors[2])
    /\ HasKeyword(authors[3])
    /\ authors[1].affiliation # lower(authors[1].affiliation)
    /\ filtered[1] = <<authors[1].name, authors[3].name>>

(***************************************************************************)
(* C5: a write that cannot be completed is surfaced to the caller of       *)
(* save_to_csv, raised or returned as an error outcome.                    *)
(***************************************************************************)
WriteFailureSurfaced(s) == s.writeFailed => s.returned \in {"raised", "error"}

\* C5: a failed write is raised or returned, not swallowed
C5_WriteFailureSurfaced == WriteFailureSurfaced(run) /\ WriteFailureSurfaced(twin)

(***************************************************************************)
(* C6: detail fetches go one at a time in identifier order; the report is  *)
(* the subsequence of the identifiers whose fetch yielded a row; a fetch   *)
(* that yields nothing is skipped and the later identifiers are processed. *)
(***************************************************************************)
BatchOrder(s) ==
    /\ s.fetched = SubSeq(todo(s), 1, Len(s.fetched))
    /\ Len(s.results) = Len(s.fetched)
    /\ InDetail(s) => Len(s.fetched) = s.idx - 1
    /\ RowIds(s.papers) = Yielded(s.fetched, s.results)
    /\ (s.pc \in {"save", "done"} /\ ~s.searchFailed) => s.fetched = todo(s)

\* C6: batch ordering and skipping
C6_BatchOrder == BatchOrder(run) /\ BatchOrder(twin)

C6_Witness ==
    /\ run.pc = "save"
    /\ Len(run.fetched) >= 5
    /\ ~run.results[1]
    /\ run.results[2]
    /\ ~run.results[3]
    /\ run.results[5]
    /\ RowIds(run.papers) = <<2, 5>>

(***************************************************************************)
(* C7: the publication date is non-empty iff Year, Month and Day are all   *)
(* present and non-empty, and then it is YEAR-MONTH-DAY.                   *)
(***************************************************************************)
Dated == ppc \in {"date", "authors", "filtered", "done"}

HasText(e) == e # None /\ e[1] # EmptyStr
HasStrippedText(e) == e # None /\ strip(e[1]) # EmptyStr

\* C7 as stated: non-empty iff the three subfields are present and non-empty
C7_NonEmptyIffPresent ==
    Dated =>
        IF xml.wellformed /\ xml.PubDate # None
        THEN LET pd == xml.PubDate[1]
             IN  IF HasText(pd.Year) /\ HasText(pd.Month) /\ HasText(pd.Day)
                 THEN pub_date = pd.Year[1] \o <<"-">> \o pd.Month[1] \o <<"-">> \o pd.Day[1]
                 ELSE pub_date = EmptyStr
        ELSE pub_date = EmptyStr

\* C7 amended: non-empty iff the three subfields are present and non-empty
\* once surrounding whitespace is stripped; the date joins the stripped texts
C7_NonEmptyIffStripped ==
    Dated =>
        IF xml.wellformed /\ xml.PubDate # None
        THEN LET pd == xml.PubDate[1]
             IN  IF /\ HasStrippedText(pd.Year)
                    /\ HasStrippedText(pd.Month)
                    /\ HasStrippedText(pd.Day)
                 THEN /\ pub_date = strip(pd.Year[1]) \o <<"-">> \o strip(pd.Month[1])
                                        \o <<"-">> \o strip(pd.Day[1])
                      /\ pub_date # EmptyStr
                 ELSE pub_date = EmptyStr
        ELSE pub_date = EmptyStr

C7_Witness ==
    /\ ppc = "date"
    /\ xml.PubDate # None
    /\ xml.PubDate[1].Year = Some(<<" ", "2", "0", "2", "4", "\n">>)
    /\ pub_date = <<"2", "0", "2", "4", "-", "0", "5", "-", "1", "7">>

(***************************************************************************)
(* C8: a run with zero results (search failed 3 times, no identifiers, or  *)
(* no detail fetch yielded a row) completes without raising, prints        *)
(* "No papers found." and creates no file, with or without a filename.     *)
(***************************************************************************)
ZeroResult(s) ==
    \/ s.searchFailed
    \/ s.paper_ids = <<>>
    \/ \A i \in 1..Len(s.results) : ~s.results[i]

ZeroResultRun(s) ==
    /\ (s.pc = "save" /\ ZeroResult(s)) => s.papers = <<>>
    /\ (s.pc = "done" /\ ZeroResult(s)) =>
          /\ s.returned = "None"
          /\ s.console = <<NoPapersFound>>
          /\ s.file = NoFile
          /\ ~s.writeFailed
    /\ s.pc # "raised"

\* C8: zero-result run
C8_ZeroResultRun == ZeroResultRun(run) /\ ZeroResultRun(twin)

C8_Witness ==
    /\ run.pc = "done"
    /\ run.filename = OutCsv
    /\ Len(run.results) >= 3
    /\ \A i \in 1..Len(run.results) : ~run.results[i]
    /\ run.console = <<NoPapersFound>>
    /\ run.file = NoFile

(***************************************************************************)
(* C9: with debug on or off and the same network outcomes, the requests,   *)
(* the returned list and the file or console rows are the same; only the   *)
(* diagnostic prints differ.                                               *)
(***************************************************************************)
Observable(s) == [s EXCEPT !.debug = FALSE, !.diag = {}]

\* C9: verbose mode is a pure side channel
C9_DebugSideChannel ==
    /\ run.debug /\ ~twin.debug
    /\ Observable(run) = Observable(twin)
    /\ twin.diag = {}

C9_Witness ==
    /\ run.pc = "done"
    /\ run.filename = None
    /\ Len(run.console) >= 2
    /\ run.console[1].text = "row"
    /\ <<"Attempt failed", 2>> \in run.diag
    /\ twin.console = run.console

(***************************************************************************)
(* C10: a run ends after at most 3 search requests and at most 3 detail    *)
(* requests for each of at most 10 identifiers, with at most 10 rows; a    *)
(* delay happens only between a failed attempt and the next attempt of the *)
(* same request.                                                           *)
(***************************************************************************)
\* steps a run can still take, at most
Rank(s) ==
    CASE s.pc = "search" -> 200 + 2 * (3 - s.attempt)
      [] s.pc = "search_sleep" -> 200 + 2 * (3 - s.attempt) - 1
      [] s.pc = "found" -> 150
      [] s.pc = "detail" -> 3 + 8 * (Len(todo(s)) - s.idx) + 2 * (3 - s.attempt)
      [] s.pc = "detail_sleep" -> 3 + 8 * (Len(todo(s)) - s.idx) + 2 * (3 - s.attempt) - 1
      [] s.pc = "collect" -> 2 + 8 * (Len(todo(s)) - s.idx)
      [] s.pc = "save" -> 1
      [] OTHER -> 0

BoundedWork(s) ==
    /\ s.requests <= 3
    /\ s.idx <= 10
    /\ Len(s.fetched) <= 10
    /\ Len(s.papers) <= 10
    /\ \A i \in 1..Len(s.fetched) : s.fetched[i] = s.paper_ids[i]
    /\ s.pc = "search_sleep" => s.outcome \in SearchFailures /\ s.requests < 3
    /\ s.pc = "detail_sleep" => s.outcome \in NetworkFailures /\ s.requests < 3
    /\ Rank(s) >= 0

DelayThenRetry(s, t) ==
    /\ s.pc = "search_sleep" => t.pc = "search" /\ t.attempt = s.attempt + 1
    /\ s.pc = "detail_sleep" =>
          t.pc = "detail" /\ t.idx = s.idx /\ t.attempt = s.attempt + 1
    /\ t.pc = "search_sleep" => s.pc = "search"
    /\ t.pc = "detail_sleep" => s.pc = "detail"
    /\ Rank(t) < Rank(s)

====
